---- MODULE Spec2Model ----
(***************************************************************************)
(* Transition (src/modules/Transition/Transition.js): the visibility       *)
(* status state machine of a React component.  The instance holds          *)
(* this.props, this.state = {status, animating}, the instance field        *)
(* this.nextStatus and the timers armed with setTimeout.  React drives     *)
(* the lifecycle methods; a timer drives handleComplete.                   *)
(***************************************************************************)
EXTENDS Integers, Sequences, FiniteSets, TLC

\* Number of prop updates (componentWillReceiveProps calls) explored.
MaxSignals == 4

ENTERED == "ENTERED"
ENTERING == "ENTERING"
EXITED == "EXITED"
EXITING == "EXITING"
UNMOUNTED == "UNMOUNTED"

\* The values of the duration prop explored: zero and the default.
Durations == {0, 500}

\* The five statuses.
Statuses == {ENTERED, ENTERING, EXITED, EXITING, UNMOUNTED}

\* JavaScript values that are falsy and occur in the status fields:
\* undefined (missing key), null (handleStart), false (a && b short circuit).
Falsy == {"undefined", "null", "false"}

\* JavaScript truthiness of a value of the model.
Truthy(v) == v \notin Falsy

\* JavaScript a && b for a boolean a: b when a holds, else the value false.
AndThen(a, b) == IF a THEN b ELSE "false"

VARIABLES
  props,        \* this.props: into, mountOnEnter, transitionAppear, unmountOnExit,
                \* duration
  state,        \* this.state: status, animating
  nextStatus,   \* this.nextStatus
  timers,       \* number of setTimeout(this.handleComplete) not yet fired
  calls,        \* the callbacks invoked so far, <<name, status>> each
  observed,     \* what the instance held when each callback was invoked
  lifecycle,    \* position in React's lifecycle
  signals,      \* number of componentWillReceiveProps calls so far
  lastSignal,   \* history: the instance as the last prop update found it
  cycle         \* history: the prop updates since the instance last rested

vars == <<props, state, nextStatus, timers, calls, observed, lifecycle,
          signals, lastSignal, cycle>>

\* The instance as a value, so that the methods compose.
Self ==
  [props |-> props, state |-> state, nextStatus |-> nextStatus,
   timers |-> timers, calls |-> calls, observed |-> observed,
   lifecycle |-> lifecycle]

\* The component is mounted (componentWillUnmount has not run).
Alive(i) == i.lifecycle # "unmounted"

\* _.invoke(this.props, name, null, {...this.props, status}).  The callback
\* runs synchronously and can read the instance as it is at that moment.
invoke(i, name, status) ==
  [i EXCEPT !.calls = Append(@, <<name, status>>),
            !.observed = Append(@, [state |-> i.state,
                                    nextStatus |-> i.nextStatus,
                                    timers |-> i.timers])]

computeInitialStatuses_noAppear(p) ==
  IF p.into
    THEN [initial |-> ENTERED, next |-> "undefined"]
    ELSE IF p.mountOnEnter \/ p.unmountOnExit
           THEN [initial |-> UNMOUNTED, next |-> "undefined"]
           ELSE [initial |-> EXITED, next |-> "undefined"]

computeInitialStatuses(p) ==
  IF p.into
    THEN IF p.transitionAppear
           THEN [initial |-> EXITED, next |-> ENTERING]
           ELSE [initial |-> ENTERED, next |-> "undefined"]
    ELSE IF p.mountOnEnter \/ p.unmountOnExit
           THEN [initial |-> UNMOUNTED, next |-> "undefined"]
           ELSE [initial |-> EXITED, next |-> "undefined"]

computeCompletedStatus_inverted(i) ==
  IF i.state.status = ENTERING
    THEN ENTERED
    ELSE IF i.props.unmountOnExit THEN EXITED ELSE UNMOUNTED

computeCompletedStatus_neverUnmount(i) ==
  IF i.state.status = ENTERING THEN ENTERED ELSE EXITED

computeCompletedStatus_alwaysUnmount(i) ==
  IF i.state.status = ENTERING THEN ENTERED ELSE UNMOUNTED

computeCompletedStatus(i) ==
  IF i.state.status = ENTERING
    THEN ENTERED
    ELSE IF i.props.unmountOnExit THEN UNMOUNTED ELSE EXITED

computeNextStatus_ignoreAnimating(i) ==
  IF i.state.status = ENTERED THEN EXITING ELSE ENTERING

computeNextStatus(i) ==
  IF i.state.animating = "true"
    THEN IF i.state.status = ENTERING THEN EXITING ELSE ENTERING
    ELSE IF i.state.status = ENTERED THEN EXITING ELSE ENTERING

computeStatuses_alwaysExit(i, nextProps) ==
  LET status == i.state.status IN
  IF nextProps.into
    THEN [current |-> AndThen(status = UNMOUNTED, EXITED),
          next |-> AndThen(status # ENTERING /\ status # ENTERED, ENTERING)]
    ELSE [current |-> "undefined", next |-> EXITING]

computeStatuses_requeue(i, nextProps) ==
  LET status == i.state.status IN
  IF nextProps.into
    THEN [current |-> AndThen(status = UNMOUNTED, EXITED),
          next |-> AndThen(status # ENTERING, ENTERING)]
    ELSE [current |-> "undefined",
          next |-> AndThen(status = ENTERING \/ status = ENTERED, EXITING)]

computeStatuses(i, nextProps) ==
  LET status == i.state.status IN
  IF nextProps.into
    THEN [current |-> AndThen(status = UNMOUNTED, EXITED),
          next |-> AndThen(status # ENTERING /\ status # ENTERED, ENTERING)]
    ELSE [current |-> "undefined",
          next |-> AndThen(status = ENTERING \/ status = ENTERED, EXITING)]

RECURSIVE handleStart(_), updateStatus(_)

handleStart_noAnimating(i) ==
  LET status == i.nextStatus
      i1 == [i EXCEPT !.nextStatus = "null"]
  IN IF ~Alive(i1)
       THEN i1
       ELSE LET i2 == [i1 EXCEPT !.state.status = status]
                i3 == updateStatus(i2)
                i4 == invoke(i3, "onStart", status)
            IN [i4 EXCEPT !.timers = @ + 1]

handleStart_timerFirst(i) ==
  LET status == i.nextStatus
      i1 == [i EXCEPT !.nextStatus = "null"]
  IN IF ~Alive(i1)
       THEN i1
       ELSE LET i2 == [i1 EXCEPT !.state = [status |-> status, animating |-> "true"]]
                i3 == updateStatus(i2)
                i4 == [i3 EXCEPT !.timers = @ + 1]
            IN invoke(i4, "onStart", status)

handleStart_zeroIsInstant(i) ==
  LET status == i.nextStatus
      i1 == [i EXCEPT !.nextStatus = "null"]
  IN IF ~Alive(i1)
       THEN i1
       ELSE IF i1.props.duration = 0
         THEN LET done == IF status = ENTERING THEN ENTERED ELSE EXITED
              IN invoke([i1 EXCEPT !.state = [status |-> done, animating |-> "false"]],
                        IF status = ENTERING THEN "onShow" ELSE "onHide", done)
         ELSE LET i2 == [i1 EXCEPT !.state = [status |-> status, animating |-> "true"]]
                  i3 == updateStatus(i2)
                  i4 == invoke(i3, "onStart", status)
              IN [i4 EXCEPT !.timers = @ + 1]

\* handleStart.  setState on an unmounted component is dropped by React
\* together with its callback; on a mounted one it commits, React re-renders
\* and runs componentDidUpdate, and then the callback runs.
handleStart(i) ==
  LET status == i.nextStatus
      i1 == [i EXCEPT !.nextStatus = "null"]
  IN IF ~Alive(i1)
       THEN i1
       ELSE LET i2 == [i1 EXCEPT !.state = [status |-> status, animating |-> "true"]]
                i3 == updateStatus(i2)
                i4 == invoke(i3, "onStart", status)
            IN [i4 EXCEPT !.timers = @ + 1]

updateStatus_alwaysStart(i) ==
  IF Truthy(i.nextStatus)
    THEN handleStart([i EXCEPT !.nextStatus = computeNextStatus(i)])
    ELSE i

updateStatus(i) ==
  IF Truthy(i.nextStatus)
    THEN LET i1 == [i EXCEPT !.nextStatus = computeNextStatus(i)]
         IN IF Truthy(i1.state.animating) THEN i1 ELSE handleStart(i1)
    ELSE i

handleComplete_noChain(i) ==
  LET current == i.state.status
      i1 == invoke(i, "onComplete", current)
      status == computeCompletedStatus(i1)
      callback == IF current = ENTERING THEN "onShow" ELSE "onHide"
  IN IF ~Alive(i1)
       THEN i1
       ELSE LET i2 == [i1 EXCEPT !.state = [status |-> status, animating |-> "false"]]
                i3 == updateStatus(i2)
            IN invoke(i3, callback, status)

handleComplete_lateComplete(i) ==
  LET current == i.state.status
  IN IF Truthy(i.nextStatus)
       THEN handleStart(invoke(i, "onComplete", current))
       ELSE LET status == computeCompletedStatus(i)
                callback == IF current = ENTERING THEN "onShow" ELSE "onHide"
            IN IF ~Alive(i)
                 THEN invoke(i, "onComplete", current)
                 ELSE LET i2 == [i EXCEPT !.state = [status |-> status, animating |-> "false"]]
                          i3 == updateStatus(i2)
                      IN invoke(invoke(i3, callback, status), "onComplete", current)

handleComplete_keepAnimating(i) ==
  LET current == i.state.status
      i1 == invoke(i, "onComplete", current)
  IN IF Truthy(i1.nextStatus)
       THEN handleStart(i1)
       ELSE LET status == computeCompletedStatus(i1)
                callback == IF current = ENTERING THEN "onShow" ELSE "onHide"
            IN IF ~Alive(i1)
                 THEN i1
                 ELSE LET i2 == [i1 EXCEPT !.state.status = status]
                          i3 == updateStatus(i2)
                      IN invoke(i3, callback, status)

handleComplete_alwaysChain(i) ==
  handleStart(invoke(i, "onComplete", i.state.status))

handleComplete_silentChain(i) ==
  LET current == i.state.status
  IN IF Truthy(i.nextStatus)
       THEN handleStart(i)
       ELSE LET i1 == invoke(i, "onComplete", current)
                status == computeCompletedStatus(i1)
                callback == IF current = ENTERING THEN "onShow" ELSE "onHide"
            IN IF ~Alive(i1)
                 THEN i1
                 ELSE LET i2 == [i1 EXCEPT !.state = [status |-> status, animating |-> "false"]]
                          i3 == updateStatus(i2)
                      IN invoke(i3, callback, status)

handleComplete_swapped(i) ==
  LET current == i.state.status
      i1 == invoke(i, "onComplete", current)
  IN IF Truthy(i1.nextStatus)
       THEN handleStart(i1)
       ELSE LET status == computeCompletedStatus(i1)
                callback == IF current = ENTERING THEN "onHide" ELSE "onShow"
            IN IF ~Alive(i1)
                 THEN i1
                 ELSE LET i2 == [i1 EXCEPT !.state = [status |-> status, animating |-> "false"]]
                          i3 == updateStatus(i2)
                      IN invoke(i3, callback, status)

handleComplete(i) ==
  LET current == i.state.status
      i1 == invoke(i, "onComplete", current)
  IN IF Truthy(i1.nextStatus)
       THEN handleStart(i1)
       ELSE LET status == computeCompletedStatus(i1)
                callback == IF current = ENTERING THEN "onShow" ELSE "onHide"
            IN IF ~Alive(i1)
                 THEN i1
                 ELSE LET i2 == [i1 EXCEPT !.state = [status |-> status, animating |-> "false"]]
                          i3 == updateStatus(i2)
                      IN invoke(i3, callback, status)

componentWillReceiveProps_keepQueued(i, nextProps) ==
  LET r == computeStatuses(i, nextProps)
      i1 == IF Truthy(r.next) THEN [i EXCEPT !.nextStatus = r.next] ELSE i
      i2 == IF Truthy(r.current) THEN [i1 EXCEPT !.state.status = r.current] ELSE i1
  IN [i2 EXCEPT !.props = nextProps]

\* componentWillReceiveProps: this.nextStatus is assigned whatever
\* computeStatuses returned as next, a status or the value false.
componentWillReceiveProps(i, nextProps) ==
  LET r == computeStatuses(i, nextProps)
      i1 == [i EXCEPT !.nextStatus = r.next]
      i2 == IF Truthy(r.current) THEN [i1 EXCEPT !.state.status = r.current] ELSE i1
  IN [i2 EXCEPT !.props = nextProps]

\* The instance is at rest: mounted, nothing in flight, nothing queued.
AtRest(i) ==
  /\ i.lifecycle = "mounted"
  /\ ~Truthy(i.state.animating)
  /\ ~Truthy(i.nextStatus)

\* Assign the instance i to the variables.
Commit(i) ==
  /\ props' = i.props
  /\ state' = i.state
  /\ nextStatus' = i.nextStatus
  /\ timers' = i.timers
  /\ calls' = i.calls
  /\ observed' = i.observed
  /\ lifecycle' = i.lifecycle

NoSignal == [status |-> "none", nextStatus |-> "none", animating |-> "none"]

\* constructor: this.nextStatus = next; this.state = { status }.
Init ==
  /\ props \in [into : BOOLEAN, mountOnEnter : BOOLEAN,
                transitionAppear : BOOLEAN, unmountOnExit : BOOLEAN,
                duration : Durations]
  /\ LET r == computeInitialStatuses(props)
     IN /\ nextStatus = r.next
        /\ state = [status |-> r.initial, animating |-> "undefined"]
  /\ timers = 0
  /\ calls = <<>>
  /\ observed = <<>>
  /\ lifecycle = "constructed"
  /\ signals = 0
  /\ lastSignal = NoSignal
  /\ cycle = [status |-> "none", len |-> 0, count |-> 0]

\* componentDidMount, run by React right after construction and first render.
ComponentDidMount ==
  /\ lifecycle = "constructed"
  /\ Commit(updateStatus([Self EXCEPT !.lifecycle = "mounted"]))
  /\ UNCHANGED <<signals, lastSignal, cycle>>

\* The parent re-renders with a value of into: componentWillReceiveProps.
\* React then renders and runs componentDidUpdate in the same pass.
ComponentWillReceiveProps ==
  /\ lifecycle = "mounted"
  /\ signals < MaxSignals
  /\ \E b \in BOOLEAN :
       Commit([componentWillReceiveProps(Self, [props EXCEPT !.into = b])
                 EXCEPT !.lifecycle = "receivedProps"])
  /\ signals' = signals + 1
  /\ lastSignal' = [status |-> state.status, nextStatus |-> nextStatus,
                    animating |-> state.animating]
  /\ cycle' = IF AtRest(Self)
                THEN [status |-> state.status, len |-> Len(calls), count |-> 1]
                ELSE [cycle EXCEPT !.count = @ + 1]

\* componentDidUpdate after the render that followed the new props.
ComponentDidUpdate ==
  /\ lifecycle = "receivedProps"
  /\ Commit(updateStatus([Self EXCEPT !.lifecycle = "mounted"]))
  /\ UNCHANGED <<signals, lastSignal, cycle>>

\* A timer armed by handleStart fires.  Nothing cancels a timer, so it also
\* fires after componentWillUnmount.
HandleComplete ==
  /\ lifecycle \in {"mounted", "unmounted"}
  /\ timers > 0
  /\ Commit(handleComplete([Self EXCEPT !.timers = @ - 1]))
  /\ UNCHANGED <<signals, lastSignal, cycle>>

\* componentWillUnmount: only a debug line; React discards the instance.
ComponentWillUnmount ==
  /\ lifecycle = "mounted"
  /\ lifecycle' = "unmounted"
  /\ UNCHANGED <<props, state, nextStatus, timers, calls, observed, signals,
                 lastSignal, cycle>>

Next ==
  \/ ComponentDidMount
  \/ ComponentWillReceiveProps
  \/ ComponentDidUpdate
  \/ HandleComplete
  \/ ComponentWillUnmount

Spec == Init /\ [][Next]_vars

\* React runs componentDidMount and componentDidUpdate in the pass that
\* constructed or updated the instance, and the event loop fires every
\* timer that setTimeout armed.
FairSpec ==
  /\ Spec
  /\ WF_vars(ComponentDidMount)
  /\ WF_vars(ComponentDidUpdate)
  /\ WF_vars(HandleComplete)

(***************************************************************************)
(* Properties                                                              *)
(***************************************************************************)

\* pendingNext as the specification speaks of it: a status, or none.
Pending(v) == IF Truthy(v) THEN v ELSE "none"

\* The step is componentWillReceiveProps.
SignalStep == lifecycle = "mounted" /\ lifecycle' = "receivedProps"

\* The step is a timer firing handleComplete.
CompleteStep ==
  /\ timers > 0
  /\ Len(calls') > Len(calls)
  /\ calls'[Len(calls) + 1][1] = "onComplete"

\* The callbacks invoked since the prop update that found the instance at rest.
SinceRest == SubSeq(calls, cycle.len + 1, Len(calls))

\* The last callback invoked, if any.
LastCall == IF calls = <<>> THEN <<"none", "none">> ELSE calls[Len(calls)]

\* C1: construction yields (status, pendingNext) = (EXITED, ENTERING) when
\* into and transitionAppear hold, (ENTERED, none) when into holds without
\* transitionAppear, (UNMOUNTED, none) when into is false and mountOnEnter or
\* unmountOnExit holds, and (EXITED, none) when all three are false.
InitialStatusLaw ==
  lifecycle = "constructed" =>
    <<state.status, Pending(nextStatus)>> =
      IF props.into /\ props.transitionAppear THEN <<EXITED, ENTERING>>
      ELSE IF props.into THEN <<ENTERED, "none">>
      ELSE IF props.mountOnEnter \/ props.unmountOnExit THEN <<UNMOUNTED, "none">>
      ELSE <<EXITED, "none">>

InitialStatusWitness ==
  /\ lifecycle = "constructed"
  /\ props.into /\ props.transitionAppear /\ props.unmountOnExit
  /\ state.status = EXITED
  /\ nextStatus = ENTERING

\* C2: the signal handler changes status only from UNMOUNTED to EXITED when
\* into is true, queues ENTERING when into is true and status is neither
\* ENTERING nor ENTERED, queues EXITING when into is false and status is
\* ENTERING or ENTERED, and queues no status in any other case.
SignalHandlerResult ==
  [][SignalStep =>
       /\ state'.status # state.status =>
            state.status = UNMOUNTED /\ props'.into
       /\ state.status = UNMOUNTED /\ props'.into => state'.status = EXITED
       /\ state'.animating = state.animating
       /\ (props'.into /\ state.status \notin {ENTERING, ENTERED}) =>
            nextStatus' = ENTERING
       /\ (~props'.into /\ state.status \in {ENTERING, ENTERED}) =>
            nextStatus' = EXITING
       /\ (props'.into <=> state.status \in {ENTERING, ENTERED}) =>
            (Pending(nextStatus') = "none" \/ nextStatus' = nextStatus)]_vars

SignalHandlerWitness ==
  /\ lifecycle = "receivedProps"
  /\ lastSignal.status = UNMOUNTED
  /\ Pending(lastSignal.nextStatus) = "none"
  /\ props.into
  /\ state.status = EXITED
  /\ nextStatus = ENTERING

\* C3: from rest at ENTERED, one signal into = false followed by the
\* checkpoint, Start and Complete, with no other signal, ends on a mounted
\* instance with animating false and status UNMOUNTED if unmountOnExit,
\* else EXITED.
SettleTerminal ==
  ( /\ lifecycle = "mounted"
    /\ cycle.status = ENTERED /\ cycle.count = 1 /\ ~props.into
    /\ Len(SinceRest) >= 2 )
  => /\ state.animating = "false"
     /\ state.status = IF props.unmountOnExit THEN UNMOUNTED ELSE EXITED

SettleTerminalWitness ==
  /\ lifecycle = "mounted"
  /\ cycle.status = ENTERED /\ cycle.count = 1 /\ ~props.into
  /\ Len(SinceRest) >= 2
  /\ props.unmountOnExit
  /\ state.status = UNMOUNTED

\* The last signal opposes the animation in flight.
Opposed ==
  /\ state.animating = "true"
  /\ \/ state.status = ENTERING /\ ~props.into
     \/ state.status = EXITING /\ props.into

Opposite(status) == IF status = ENTERING THEN EXITING ELSE ENTERING

FullExitCycle ==
  << <<"onStart", EXITING>>, <<"onComplete", EXITING>>, <<"onHide", EXITED>> >>

DestructionSafety ==
  [][lifecycle = "unmounted" =>
       /\ calls' = calls
       /\ state' = state
       /\ nextStatus' = nextStatus
       /\ timers' <= timers]_vars

NoUnmountWithoutUnmountOnExit ==
  [][(~props.unmountOnExit /\ state.status # UNMOUNTED) =>
       state'.status # UNMOUNTED]_vars

NoUnmountWitness ==
  /\ ~props.unmountOnExit
  /\ props.mountOnEnter
  /\ LastCall = <<"onHide", EXITED>>
  /\ state.status = EXITED

\* C10: with unmountOnExit true, a mounted instance at rest whose last into
\* is false has status UNMOUNTED.
HiddenIsUnmounted ==
  (props.unmountOnExit /\ AtRest(Self) /\ ~props.into) =>
    state.status = UNMOUNTED

HiddenIsUnmountedWitness ==
  /\ props.unmountOnExit /\ AtRest(Self) /\ ~props.into
  /\ LastCall = <<"onHide", UNMOUNTED>>
  /\ state.status = UNMOUNTED

\* The number of callbacks named name invoked so far.
Count(name) == Cardinality({k \in 1..Len(calls) : calls[k][1] = name})

\* C11: on a mounted instance animating is true exactly while a Start
\* (the first or a chained one) has no Complete yet, which is exactly while
\* its timer is outstanding; it is not true at construction and false
\* after every settling Complete.
AnimatingBetweenStartAndComplete ==
  /\ Alive(Self) =>
       /\ state.animating = "true" <=> timers > 0
       /\ state.animating = "true" <=> LastCall[1] = "onStart"
       /\ state.animating = "true" <=>
            Count("onStart") > Count("onComplete")
       /\ LastCall[1] \in {"onShow", "onHide"} => state.animating = "false"
  /\ lifecycle = "constructed" => ~Truthy(state.animating)

AnimatingWitness ==
  /\ lifecycle = "mounted"
  /\ LastCall = <<"onShow", ENTERED>>
  /\ Count("onStart") = 2
  /\ state.animating = "false"
  /\ timers = 0

\* C12: in every reachable state at most one timer is outstanding.
AtMostOneTimer == timers <= 1

AtMostOneTimerWitness ==
  /\ timers = 1
  /\ Count("onStart") >= 3
  /\ Count("onComplete") >= 2
  /\ signals >= 3

\* C13: status is always one of the five statuses, pendingNext when present
\* is ENTERING or EXITING, and every callback is given one of the statuses.
TypeInvariant ==
  /\ state.status \in Statuses
  /\ Truthy(nextStatus) => nextStatus \in {ENTERING, EXITING}
  /\ \A k \in 1..Len(calls) :
       /\ calls[k][2] \in Statuses
       /\ calls[k][1] = "onStart" => calls[k][2] \in {ENTERING, EXITING}

TypeInvariantWitness ==
  /\ state.status = ENTERING
  /\ nextStatus = EXITING
  /\ Count("onStart") >= 2

\* The step ends with handleStart's callback.
StartStep == Len(calls') > Len(calls) /\ calls'[Len(calls')][1] = "onStart"

\* The callbacks the step invokes.
Added == SubSeq(calls', Len(calls) + 1, Len(calls'))

SettleStep == CompleteStep /\ state.animating = "true" /\ state'.animating = "false"

Resting(status) == status \in {ENTERED, EXITED, UNMOUNTED}

\* With duration 0 a Start still animates and arms a timer, and only a
\* Complete in a later step brings status to rest.
ZeroDurationProtocol ==
  /\ StartStep =>
       /\ state'.status \in {ENTERING, EXITING}
       /\ state'.animating = "true"
       /\ timers' = 1
  /\ CompleteStep => timers > 0 /\ Added[1][2] = state.status
  /\ (Resting(state'.status) /\ ~Resting(state.status)) => SettleStep

\* C16 as stated: with duration 0 a transition goes through Start, a timer
\* and a later Complete, and status never goes from a resting status to
\* another resting status in one step.
ZeroDurationNoJump ==
  [][props.duration = 0 =>
       /\ ZeroDurationProtocol
       /\ (Resting(state.status) /\ state'.status # state.status) =>
            ~Resting(state'.status)]_vars

\* C16 amended: as stated, except that the signal handler's immediate
\* UNMOUNTED -> EXITED on into = true, which queues ENTERING, is a step from
\* a resting status to another.
ZeroDurationStillAnimates ==
  [][props.duration = 0 =>
       /\ ZeroDurationProtocol
       /\ (Resting(state.status) /\ state'.status # state.status) =>
            \/ /\ StartStep
               /\ ~Resting(state'.status)
            \/ /\ SignalStep
               /\ state.status = UNMOUNTED /\ state'.status = EXITED
               /\ props'.into /\ nextStatus' = ENTERING]_vars

ZeroDurationWitness ==
  /\ props.duration = 0
  /\ lifecycle = "mounted"
  /\ Len(calls) >= 3
  /\ calls[Len(calls) - 2] = <<"onStart", ENTERING>>
  /\ calls[Len(calls) - 1] = <<"onComplete", ENTERING>>
  /\ calls[Len(calls)] = <<"onShow", ENTERED>>
  /\ state = [status |-> ENTERED, animating |-> "false"]

\* The instance rests at the status the last into asks for.
RestsAsRequested ==
  /\ AtRest(Self)
  /\ timers = 0
  /\ state.status \in (IF props.into THEN {ENTERED} ELSE {EXITED, UNMOUNTED})

\* C17: on an instance that is never unmounted, once signals have stopped
\* the instance reaches and keeps a resting state whose status is ENTERED if
\* the last into is true, and EXITED or UNMOUNTED if it is false.
Convergence == <>[](lifecycle = "unmounted" \/ RestsAsRequested)

ConvergenceWitness ==
  /\ RestsAsRequested
  /\ props.into
  /\ cycle.count >= 3
  /\ Count("onStart") >= 2

\* The step is a checkpoint: updateStatus run by componentDidMount or
\* componentDidUpdate.
CheckpointStep ==
  lifecycle \in {"constructed", "receivedProps"} /\ lifecycle' = "mounted"

\* C18: when the checkpoint runs with pendingNext set, the recomputed value
\* is the queued one: it stays queued while animating, and is the status
\* Start commits otherwise.
CheckpointKeepsTarget ==
  [][(CheckpointStep /\ Truthy(nextStatus)) =>
       IF state.animating = "true"
         THEN nextStatus' = nextStatus /\ state' = state
         ELSE state'.status = nextStatus /\ StartStep]_vars

CheckpointKeepsTargetWitness ==
  /\ lifecycle = "mounted"
  /\ lastSignal.status = ENTERING
  /\ lastSignal.animating = "true"
  /\ state.status = ENTERING
  /\ nextStatus = EXITING
  /\ ~props.into

\* C19: animating is true exactly when status is ENTERING or EXITING, so
\* status is never UNMOUNTED while an animation is in flight.
StatusAgreesWithAnimating ==
  /\ state.animating = "true" <=> state.status \in {ENTERING, EXITING}
  /\ state.animating = "true" => state.status # UNMOUNTED
  /\ timers > 0 => state.status # UNMOUNTED

StatusAgreesWitness ==
  /\ lifecycle = "receivedProps"
  /\ state = [status |-> EXITING, animating |-> "true"]
  /\ nextStatus = ENTERING
  /\ props.unmountOnExit

\* The onStart and onComplete callbacks invoked so far, in order.
StartsAndCompletes ==
  SelectSeq(calls, LAMBDA c : c[1] \in {"onStart", "onComplete"})

\* onStart and onComplete alternate, onStart first, each onComplete with the
\* status of the onStart before it.
Alternates ==
  \A k \in 1..Len(StartsAndCompletes) :
    IF k % 2 = 1
      THEN StartsAndCompletes[k][1] = "onStart"
      ELSE /\ StartsAndCompletes[k][1] = "onComplete"
           /\ StartsAndCompletes[k][2] = StartsAndCompletes[k - 1][2]

====
